---- MODULE Spec2Model ----
(***************************************************************************)
(* A model of notebooks/RunningTimeExperiment.py: the RunningTimeExperiment *)
(* class (instance and algorithm registry, validate, run, create_figure).   *)
(*                                                                          *)
(* Abstractions:                                                            *)
(*  - an algorithm callable is one of a few named behaviours; Out gives its *)
(*    result on a payload, or Raised when the callable raises;              *)
(*  - one elapsed-time sample is identified by the execution that produced  *)
(*    it (run number, algorithm index, instance index, iteration): the      *)
(*    measured number of seconds is opaque;                                 *)
(*  - a palette colour is its index in plotly's qualitative.Plotly list;    *)
(*  - the mean of a list of samples is kept symbolically (MeanOf);          *)
(*  - console output is not modelled.                                       *)
(* Indices are 1-based here and 0-based in the source.                      *)
(***************************************************************************)
EXTENDS Integers, Sequences, FiniteSets, TLC

VARIABLES
    instances,       \* self.instances: sequence of <<input_size, instance>>
    algorithms,      \* self.algorithms: sequence of <<name, func>>
    result,          \* self.result: name -> (input_size -> sequence of samples)
    pc,              \* "idle", or "run" while run() is inside its loops
    alg_i,           \* run(): index of the algorithm of the next execution
    inst_i,          \* run(): index of the instance of the next execution
    iter_i,          \* run(): iteration of the next execution
    num_iterations,  \* run(): its parameter
    runs,            \* number of run() calls started so far
    calls,           \* the callable invocations made by the current/last call
    ret              \* the last call: [op, status, value]

vars == <<instances, algorithms, result, pc, alg_i, inst_i, iter_i,
          num_iterations, runs, calls, ret>>

(***************************************************************************)
(* Bounds and input menus                                                   *)
(***************************************************************************)
MaxInsts == 2
MaxAlgs == 2
MaxIter == 2
MaxRuns == 2
MaxPaletteAlgs == 11

\* len(plotly.colors.qualitative.Plotly)
PaletteSize == 10

\* The outcome of calling a callable: it returns a value or it raises.
Returned(v) == [raised |-> FALSE, value |-> v]
Raised == [raised |-> TRUE, value |-> 0]

InstMenu == { <<10, "p">>, <<100, "q">> }
AlgMenu == { <<"a", "good">>, <<"a", "late">>, <<"b", "throws">> }
Scales == { "log", "linear" }

\* f(inst): what each callable does on each payload.
Out(func, payload) ==
    CASE func = "good"   -> IF payload = "p" THEN Returned(1) ELSE Returned(2)
      [] func = "late"   -> IF payload = "p" THEN Returned(1) ELSE Returned(3)
      [] func = "throws" -> IF payload = "p" THEN Raised ELSE Returned(2)

(***************************************************************************)
(* self.result: defaultdict(lambda: defaultdict(list))                      *)
(***************************************************************************)
EmptyMap == [x \in {} |-> <<>>]

\* self.result[alg][n] as an expression: a missing key is inserted.
Touch(t, alg, n) ==
    LET t1 == IF alg \in DOMAIN t THEN t ELSE t @@ (alg :> EmptyMap)
    IN  IF n \in DOMAIN t1[alg] THEN t1
        ELSE [t1 EXCEPT ![alg] = @ @@ (n :> <<>>)]

\* A read that inserts nothing (used by the properties only).
Peek(t, alg, n) ==
    IF alg \in DOMAIN t /\ n \in DOMAIN t[alg] THEN t[alg][n] ELSE <<>>

\* elapsed.total_seconds() of one execution
Elapsed(r, a, i, it) == [run |-> r, alg |-> a, inst |-> i, iter |-> it]

\* Mutant of AppendSample: the sample replaces the list (= instead of +=).
AppendSampleOverwrite(t, alg, n, sample) ==
    [Touch(t, alg, n) EXCEPT ![alg][n] = <<sample>>]

\* self.result[alg][n] += [sample]
AppendSample(t, alg, n, sample) ==
    [Touch(t, alg, n) EXCEPT ![alg][n] = Append(@, sample)]

\* Mutant of Clear: the table is not cleared.
ClearKeeps(t) == t

\* self.result.clear()
Clear(t) == EmptyMap

None == <<>>
Ret(op, status, value) == [op |-> op, status |-> status, value |-> value]

Init ==
    /\ instances = <<>>
    /\ algorithms = <<>>
    /\ result = EmptyMap
    /\ pc = "idle"
    /\ alg_i = 0
    /\ inst_i = 0
    /\ iter_i = 0
    /\ num_iterations = 0
    /\ runs = 0
    /\ calls = <<>>
    /\ ret = Ret("init", "ok", None)

(***************************************************************************)
(* add_instance, add_algorithm                                              *)
(***************************************************************************)
add_instance(input_size, instance) ==
    /\ pc = "idle"
    /\ instances' = Append(instances, <<input_size, instance>>)
    /\ calls' = <<>>
    /\ ret' = Ret("add_instance", "ok", None)
    /\ UNCHANGED <<algorithms, result, pc, alg_i, inst_i, iter_i,
                   num_iterations, runs>>

add_algorithm(name, func) ==
    /\ pc = "idle"
    /\ algorithms' = Append(algorithms, <<name, func>>)
    /\ calls' = <<>>
    /\ ret' = Ret("add_algorithm", "ok", None)
    /\ UNCHANGED <<instances, result, pc, alg_i, inst_i, iter_i,
                   num_iterations, runs>>

(***************************************************************************)
(* validate                                                                 *)
(***************************************************************************)
\* The two assertions of validate and an exception of a callable.
PreconditionError == "AssertionError"
ValidationError == "AssertionError: Algorithm is not correct"
AlgorithmError == "exception raised by the algorithm"

Call(a, i, it) == [alg |-> a, inst |-> i, iter |-> it]

\* Mutant of Precondition: only the instances are asserted.
PreconditionInstancesOnly(insts, algs) == insts # <<>>

\* assert self.instances and self.algorithms
Precondition(insts, algs) == insts # <<>> /\ algs # <<>>

\* Mutant of FirstPayload: the last instance is used.
LastPayload(insts) == insts[Len(insts)][2]

\* inst = self.instances[0][1]
FirstPayload(insts) == insts[1][2]

\* all(f(inst) == expected for _, f in self.algorithms[1:]): the generator
\* calls the callables in order and all() stops at the first mismatch.
RECURSIVE ValidateRest(_, _, _, _, _)
ValidateRest(algs, j, inst, expected, log) ==
    IF j > Len(algs) THEN [status |-> "ok", calls |-> log]
    ELSE LET out == Out(algs[j][2], inst)
             log1 == Append(log, Call(j, 1, 0))
         IN  IF out.raised THEN [status |-> AlgorithmError, calls |-> log1]
             ELSE IF out.value # expected
                  THEN [status |-> ValidationError, calls |-> log1]
                  ELSE ValidateRest(algs, j + 1, inst, expected, log1)

ValidateOutcome(insts, algs) ==
    IF ~Precondition(insts, algs)
    THEN [status |-> PreconditionError, calls |-> <<>>]
    ELSE IF insts = <<>> \/ algs = <<>>
    \* self.instances[0] or self.algorithms[0] of an empty list (not
    \* reachable behind the assertion)
    THEN [status |-> "IndexError", calls |-> <<>>]
    ELSE LET inst == FirstPayload(insts)
             first == Out(algs[1][2], inst)
             log == <<Call(1, 1, 0)>>
         IN  IF first.raised THEN [status |-> AlgorithmError, calls |-> log]
             ELSE ValidateRest(algs, 2, inst, first.value, log)

validate ==
    /\ pc = "idle"
    /\ LET r == ValidateOutcome(instances, algorithms)
       IN  /\ calls' = r.calls
           /\ ret' = Ret("validate", r.status, None)
    /\ UNCHANGED <<instances, algorithms, result, pc, alg_i, inst_i, iter_i,
                   num_iterations, runs>>

(***************************************************************************)
(* run: one action per entry, per execution of the loop body, and return.   *)
(* While pc = "run" no other method runs (single thread).                   *)
(***************************************************************************)
Pos(a, i, it) == [alg |-> a, inst |-> i, iter |-> it]

\* The position of the first loop body, or past the last algorithm when
\* there is none (no algorithm, no instance, or range(k) empty).
FirstPos(k) ==
    IF algorithms = <<>> \/ instances = <<>> \/ k <= 0
    THEN Pos(Len(algorithms) + 1, 1, 1)
    ELSE Pos(1, 1, 1)

\* Mutant of Advance: the iteration loop ends one iteration early.
AdvanceOffByOne(a, i, it, k) ==
    IF it + 1 < k THEN Pos(a, i, it + 1)
    ELSE IF i < Len(instances) THEN Pos(a, i + 1, 1)
    ELSE Pos(a + 1, 1, 1)

\* The position after the body at (a, i, it): the three nested for loops.
Advance(a, i, it, k) ==
    IF it < k THEN Pos(a, i, it + 1)
    ELSE IF i < Len(instances) THEN Pos(a, i + 1, 1)
    ELSE Pos(a + 1, 1, 1)

\* Mutant of Execute: the sample is appended also when the callable raises.
ExecuteRecordsFailure(t, r, a, i, it) ==
    [raised |-> Out(algorithms[a][2], instances[i][2]).raised,
     table |-> AppendSample(t, algorithms[a][1], instances[i][1],
                            Elapsed(r, a, i, it))]

\* One loop body: f(inst) and, when it returns, the append of the sample.
Execute(t, r, a, i, it) ==
    LET out == Out(algorithms[a][2], instances[i][2])
    IN  IF out.raised THEN [raised |-> TRUE, table |-> t]
        ELSE [raised |-> FALSE,
              table |-> AppendSample(t, algorithms[a][1], instances[i][1],
                                     Elapsed(r, a, i, it))]

run(k) ==
    /\ pc = "idle"
    /\ result' = Clear(result)
    /\ runs' = runs + 1
    /\ num_iterations' = k
    /\ LET p == FirstPos(k)
       IN  alg_i' = p.alg /\ inst_i' = p.inst /\ iter_i' = p.iter
    /\ pc' = "run"
    /\ calls' = <<>>
    /\ ret' = Ret("run", "running", None)
    /\ UNCHANGED <<instances, algorithms>>

run_body ==
    /\ pc = "run"
    /\ alg_i <= Len(algorithms)
    /\ calls' = Append(calls, Call(alg_i, inst_i, iter_i))
    /\ LET e == Execute(result, runs, alg_i, inst_i, iter_i)
           p == Advance(alg_i, inst_i, iter_i, num_iterations)
       IN  /\ result' = e.table
           /\ IF e.raised
              THEN /\ pc' = "idle"
                   /\ alg_i' = 0 /\ inst_i' = 0 /\ iter_i' = 0
                   /\ ret' = Ret("run", AlgorithmError, None)
              ELSE /\ pc' = "run"
                   /\ alg_i' = p.alg /\ inst_i' = p.inst /\ iter_i' = p.iter
                   /\ ret' = ret
    /\ UNCHANGED <<instances, algorithms, num_iterations, runs>>

run_return ==
    /\ pc = "run"
    /\ alg_i > Len(algorithms)
    /\ pc' = "idle"
    /\ alg_i' = 0 /\ inst_i' = 0 /\ iter_i' = 0
    /\ ret' = Ret("run", "ok", None)
    /\ UNCHANGED <<instances, algorithms, result, num_iterations, runs, calls>>

(***************************************************************************)
(* create_figure                                                            *)
(***************************************************************************)
\* sum(runtime) / len(runtime), kept symbolically
MeanOf(runtime) == [mean_of |-> runtime]

\* [n] * len(runtime)
Repeat(n, len) == [j \in 1..len |-> n]

\* The loop over self.instances for one algorithm: lines 91-96.
RECURSIVE InstanceLoop(_, _, _, _)
InstanceLoop(j, alg, t, acc) ==
    IF j > Len(instances) THEN [status |-> "ok", table |-> t, acc |-> acc]
    ELSE LET n == instances[j][1]
             t1 == Touch(t, alg, n)
             runtime == t1[alg][n]
         IN  IF Len(runtime) = 0
             THEN [status |-> "ZeroDivisionError", table |-> t1, acc |-> acc]
             ELSE InstanceLoop(j + 1, alg, t1,
                      [xs |-> acc.xs \o Repeat(n, Len(runtime)),
                       ys |-> acc.ys \o runtime,
                       axs |-> Append(acc.axs, n),
                       ays |-> Append(acc.ays, MeanOf(runtime))])

\* colors = qualitative.Plotly[i], qualitative.Plotly[(i + 5) % len(...)]
\* for the 0-based index i0: the first index is not reduced.
PrimaryIndex(i0) == i0
SecondaryIndex(i0) == (i0 + 5) % PaletteSize
InPalette(c) == c >= 0 /\ c < PaletteSize

Violin(alg, acc, i0) ==
    [type |-> "violin", x |-> acc.xs, y |-> acc.ys, name |-> alg,
     showlegend |-> FALSE, line_color |-> PrimaryIndex(i0),
     fillcolor |-> SecondaryIndex(i0)]

Scatter(alg, acc, i0) ==
    [type |-> "scatter", x |-> acc.axs, y |-> acc.ays, name |-> alg,
     mode |-> "lines", line_color |-> PrimaryIndex(i0)]

\* The loop over enumerate(self.algorithms): lines 85-118.
RECURSIVE AlgorithmLoop(_, _, _)
AlgorithmLoop(i, t, traces) ==
    IF i > Len(algorithms) THEN [status |-> "ok", table |-> t, traces |-> traces]
    ELSE IF ~InPalette(PrimaryIndex(i - 1))
    THEN [status |-> "IndexError", table |-> t, traces |-> traces]
    ELSE LET alg == algorithms[i][1]
             r == InstanceLoop(1, alg, t,
                      [xs |-> <<>>, ys |-> <<>>, axs |-> <<>>, ays |-> <<>>])
         IN  IF r.status # "ok"
             THEN [status |-> r.status, table |-> r.table, traces |-> traces]
             ELSE AlgorithmLoop(i + 1, r.table,
                      traces \o <<Violin(alg, r.acc, i - 1),
                                  Scatter(alg, r.acc, i - 1)>>)

AxisTitle(base, scale) == <<base, IF scale = "log" THEN " [log scale]" ELSE "">>

Figure(traces, xscale, yscale) ==
    [traces |-> traces,
     xaxis |-> [title |-> AxisTitle("Input size: n", xscale), type |-> xscale],
     yaxis |-> [title |-> AxisTitle("Running time (sec)", yscale), type |-> yscale],
     layout |-> [title |-> "title", showlegend |-> TRUE,
                 width |-> 800, height |-> 800]]

create_figure(xscale, yscale) ==
    /\ pc = "idle"
    /\ LET r == AlgorithmLoop(1, result, <<>>)
       IN  /\ result' = r.table
           /\ ret' = IF r.status = "ok"
                     THEN Ret("create_figure", "ok",
                              <<Figure(r.traces, xscale, yscale)>>)
                     ELSE Ret("create_figure", r.status, None)
    /\ calls' = <<>>
    /\ UNCHANGED <<instances, algorithms, pc, alg_i, inst_i, iter_i,
                   num_iterations, runs>>

(***************************************************************************)
(* Specifications                                                           *)
(***************************************************************************)
Next ==
    \/ \E inst \in InstMenu :
          Len(instances) < MaxInsts /\ add_instance(inst[1], inst[2])
    \/ \E a \in AlgMenu :
          Len(algorithms) < MaxAlgs /\ add_algorithm(a[1], a[2])
    \/ validate
    \/ \E k \in 0..MaxIter : runs < MaxRuns /\ run(k)
    \/ run_body
    \/ run_return
    \/ \E xscale, yscale \in Scales : create_figure(xscale, yscale)

Spec == Init /\ [][Next]_vars

\* A registry larger than the palette: one kind of algorithm, one instance.
NextPalette ==
    \/ Len(instances) < 1 /\ add_instance(10, "q")
    \/ Len(algorithms) < MaxPaletteAlgs /\ add_algorithm("a", "good")
    \/ validate
    \/ runs < 1 /\ run(1)
    \/ run_body
    \/ run_return
    \/ create_figure("log", "log")

SpecPalette == Init /\ [][NextPalette]_vars

(***************************************************************************)
(* Vocabulary of the properties                                             *)
(***************************************************************************)
Names == { algorithms[j][1] : j \in 1..Len(algorithms) }
Sizes == { instances[j][1] : j \in 1..Len(instances) }
CountAlg(a) == Cardinality({ j \in 1..Len(algorithms) : algorithms[j][1] = a })
CountInst(n) == Cardinality({ j \in 1..Len(instances) : instances[j][1] = n })

\* run has returned normally and nothing was called since.
RunCompleted == pc = "idle" /\ ret.op = "run" /\ ret.status = "ok"
\* run was aborted by an algorithm's exception and nothing was called since.
RunFailed == ret.op = "run" /\ ret.status = AlgorithmError

\* The (algorithm, instance, iteration) triples in lexicographic order.
LexOrder(nA, nI, k) ==
    [j \in 1..(nA * nI * k) |->
        Call(((j - 1) \div (nI * k)) + 1,
             (((j - 1) \div k) % nI) + 1,
             ((j - 1) % k) + 1)]

Prefix(s, len) == SubSeq(s, 1, len)

\* The table that holds exactly one sample per execution of cs, of run r,
\* in the order of cs.
SamplesOf(cs, r, a, n) ==
    LET Hit(c) == algorithms[c.alg][1] = a /\ instances[c.inst][1] = n
        hits == SelectSeq(cs, Hit)
    IN  [j \in 1..Len(hits) |-> Elapsed(r, hits[j].alg, hits[j].inst, hits[j].iter)]

TableOf(cs, r) ==
    LET as == { algorithms[cs[j].alg][1] : j \in 1..Len(cs) }
    IN  [a \in as |->
            LET ns == { instances[cs[j].inst][1] :
                          j \in { x \in 1..Len(cs) : algorithms[cs[x].alg][1] = a } }
            IN  [n \in ns |-> SamplesOf(cs, r, a, n)]]

Keys(t) == UNION { { <<a, n>> : n \in DOMAIN t[a] } : a \in DOMAIN t }

RECURSIVE SumLen(_, _)
SumLen(t, ks) ==
    IF ks = {} THEN 0
    ELSE LET k == CHOOSE x \in ks : TRUE
         IN  Len(t[k[1]][k[2]]) + SumLen(t, ks \ {k})

TotalSamples(t) == SumLen(t, Keys(t))

(***************************************************************************)
(* C1                                                                       *)
(***************************************************************************)
\* C1 as stated: after a completed run(k), for every registered algorithm
\* name and every registered size, len(result[alg][size]) is k times the
\* number of instances of that size, duplicate names included.
C1_LengthPerSize ==
    RunCompleted =>
        \A a \in Names, n \in Sizes :
            Len(Peek(result, a, n)) = num_iterations * CountInst(n)

\* C1 amended: after a completed run(k), len(result[alg][size]) is k times
\* the number of instances of that size times the number of registered
\* algorithms of that name.
C1_LengthPerSizeAndName ==
    RunCompleted =>
        \A a \in Names, n \in Sizes :
            Len(Peek(result, a, n)) = num_iterations * CountInst(n) * CountAlg(a)

C1_Witness ==
    /\ RunCompleted
    /\ num_iterations = 2
    /\ \E a \in Names : CountAlg(a) = 2
    /\ \E n \in Sizes : CountInst(n) = 2

(***************************************************************************)
(* C2                                                                       *)
(***************************************************************************)
ValidateCalled == ret.op = "validate" /\ instances # <<>> /\ algorithms # <<>>

OutOnFirst(j) == Out(algorithms[j][2], instances[1][2])

\* Algorithm j returns, on the first payload, what the first algorithm returns.
Agrees(j) ==
    /\ ~OutOnFirst(1).raised
    /\ ~OutOnFirst(j).raised
    /\ OutOnFirst(j).value = OutOnFirst(1).value

AllAgree == \A j \in 1..Len(algorithms) : Agrees(j)

FirstDisagreeing ==
    CHOOSE j \in 1..Len(algorithms) :
        ~Agrees(j) /\ \A x \in 1..(j - 1) : Agrees(x)

\* C2 as stated: with a non-empty registry, validate() succeeds iff every
\* algorithm's output on the first payload equals the first algorithm's,
\* and otherwise it fails with the validation error.
C2_ValidateIff ==
    ValidateCalled =>
        /\ (ret.status = "ok" <=> AllAgree)
        /\ (~AllAgree => ret.status = ValidationError)

\* C2 amended: validate() succeeds iff every algorithm returns on the first
\* payload an output equal to the first algorithm's; otherwise the first
\* algorithm in registration order that does not decides: if it raises, its
\* exception propagates, and if it returns another output, validate fails
\* with the validation error. Later instances are never consulted.
C2_ValidateOutcome ==
    ValidateCalled =>
        /\ (ret.status = "ok" <=> AllAgree)
        /\ (~AllAgree =>
               ret.status = IF OutOnFirst(FirstDisagreeing).raised
                            THEN AlgorithmError
                            ELSE ValidationError)

\* validate succeeded although two algorithms differ on a later instance.
C2_Witness ==
    /\ ValidateCalled
    /\ ret.status = "ok"
    /\ \E i \in 2..Len(instances), j \in 2..Len(algorithms) :
          Out(algorithms[j][2], instances[i][2])
              # Out(algorithms[1][2], instances[i][2])

(***************************************************************************)
(* C3                                                                       *)
(***************************************************************************)
\* C3: validate() fails with the precondition error whenever there is no
\* instance or no algorithm, and then it invokes no callable.
C3_Precondition ==
    (ret.op = "validate" /\ (instances = <<>> \/ algorithms = <<>>)) =>
        /\ ret.status = PreconditionError
        /\ calls = <<>>

C3_Witness ==
    /\ ret.op = "validate"
    /\ instances # <<>>
    /\ algorithms = <<>>
    /\ ret.status = PreconditionError

(***************************************************************************)
(* C4                                                                       *)
(***************************************************************************)
\* C4: after a completed run(k), whatever was called before, the table is
\* the one determined by the registry and k: one sample of this run per
\* execution, no sample of an earlier run and no key left from an earlier
\* run or create_figure.
C4_RunResets ==
    RunCompleted =>
        /\ result = TableOf(LexOrder(Len(algorithms), Len(instances),
                                     num_iterations), runs)
        /\ \A k \in Keys(result) :
              /\ result[k[1]][k[2]] # <<>>
              /\ \A j \in 1..Len(result[k[1]][k[2]]) :
                    result[k[1]][k[2]][j].run = runs

C4_Witness ==
    /\ RunCompleted
    /\ runs = 2
    /\ result # EmptyMap

(***************************************************************************)
(* C5                                                                       *)
(***************************************************************************)
\* C5: create_figure before any run does not fail and returns a chart whose
\* series are all empty.
C5_UnrunFigureIsEmpty ==
    (ret.op = "create_figure" /\ runs = 0) =>
        /\ ret.status = "ok"
        /\ \A j \in 1..Len(ret.value[1].traces) :
              /\ ret.value[1].traces[j].x = <<>>
              /\ ret.value[1].traces[j].y = <<>>

(***************************************************************************)
(* C6                                                                       *)
(***************************************************************************)
\* Every registered (algorithm, instance) pair has at least one sample.
FullTable ==
    \A a \in Names, n \in Sizes : Peek(result, a, n) # <<>>

\* C6: create_figure succeeds for every number of algorithms, the algorithm
\* of index i getting primary colour i cycling within the palette and
\* secondary colour (i + 5) mod palette_size.
C6_PaletteCycles ==
    (ret.op = "create_figure" /\ FullTable) =>
        /\ ret.status = "ok"
        /\ \A i \in 1..Len(algorithms) :
              LET violin == ret.value[1].traces[2 * i - 1]
                  scatter == ret.value[1].traces[2 * i]
              IN  /\ violin.line_color = (i - 1) % PaletteSize
                  /\ scatter.line_color = (i - 1) % PaletteSize
                  /\ violin.fillcolor = (i - 1 + 5) % PaletteSize

(***************************************************************************)
(* C7                                                                       *)
(***************************************************************************)
CallRaises(c) == Out(algorithms[c.alg][2], instances[c.inst][2]).raised

\* C7: when an algorithm raises during run, run ends at once: the raising
\* execution is the last one, it left no sample, and the table holds exactly
\* the samples of the executions of this run completed before it.
C7_FailureAborts ==
    RunFailed =>
        /\ pc = "idle"
        /\ calls # <<>>
        /\ calls = Prefix(LexOrder(Len(algorithms), Len(instances),
                                   num_iterations), Len(calls))
        /\ CallRaises(calls[Len(calls)])
        /\ \A j \in 1..(Len(calls) - 1) : ~CallRaises(calls[j])
        /\ result = TableOf(Prefix(calls, Len(calls) - 1), runs)

\* A failure after some executions of the same run completed.
C7_Witness ==
    /\ RunFailed
    /\ Len(calls) >= 3
    /\ runs = 2

(***************************************************************************)
(* C8                                                                       *)
(***************************************************************************)
\* The table is the one a completed run on the present registry leaves.
TableIsOfRegistry ==
    /\ runs > 0
    /\ result = TableOf(LexOrder(Len(algorithms), Len(instances),
                                 num_iterations), runs)

Occurrences(xs, ys, n, s) ==
    Cardinality({ j \in 1..Len(xs) : xs[j] = n /\ ys[j] = s })

\* C8: after a run, the distribution series of an algorithm holds every
\* sample of the table for that algorithm exactly once, at x = its size:
\* the number of points at a size is len(result[alg][size]).
C8_EachSampleOnce ==
    (ret.op = "create_figure" /\ ret.status = "ok" /\ TableIsOfRegistry) =>
        \A i \in 1..Len(algorithms) :
            LET violin == ret.value[1].traces[2 * i - 1]
                a == algorithms[i][1]
            IN  \A n \in Sizes :
                   /\ Cardinality({ j \in 1..Len(violin.x) : violin.x[j] = n })
                          = Len(Peek(result, a, n))
                   /\ \A j \in 1..Len(Peek(result, a, n)) :
                         Occurrences(violin.x, violin.y, n, result[a][n][j]) = 1

(***************************************************************************)
(* C9                                                                       *)
(***************************************************************************)
\* C9: run executes the callables one at a time in lexicographic
\* (algorithm, instance, iteration) order, appends one sample after each
\* execution that returns, and a completed run has made exactly
\* |algorithms| * |instances| * k executions.
C9_Sequential ==
    ret.op = "run" =>
        LET order == LexOrder(Len(algorithms), Len(instances), num_iterations)
        IN  /\ Len(calls) <= Len(order)
            /\ calls = Prefix(order, Len(calls))
            /\ TotalSamples(result) = Len(calls) - (IF RunFailed THEN 1 ELSE 0)
            /\ RunCompleted =>
                  Len(calls) = Len(algorithms) * Len(instances) * num_iterations

C9_Witness ==
    /\ RunCompleted
    /\ Len(algorithms) = 2
    /\ Len(instances) = 2
    /\ num_iterations = 2
    /\ Len(calls) = 8

(***************************************************************************)
(* C10                                                                      *)
(***************************************************************************)
\* C10: validate and create_figure leave the instance sequence, the
\* algorithm sequence and the measurement table, keys included, as they were.
C10_ReadOnly ==
    [][ret'.op \in {"validate", "create_figure"} =>
           /\ instances' = instances
           /\ algorithms' = algorithms
           /\ result' = result]_vars

====
